---- MODULE Spec2Model ----
(***************************************************************************)
(* Model of backend/config/api/views.py: the helper tmap_geocode and the   *)
(* request handler TravelAPIView.get, which aggregates geocoding, weather, *)
(* driving-route and transit-route providers into one route response.      *)
(*                                                                         *)
(* Conventions                                                             *)
(*   - a Python str is a sequence of one-character strings ("" is <<>>);   *)
(*   - Python None for a str-valued parameter is the marker None;          *)
(*   - an optional dict/tuple is Nil (<<>>) or a one-element sequence;     *)
(*   - a float with one decimal (distance_km) is kept in tenths;           *)
(*   - an f-string is a record naming the template and its arguments;      *)
(*   - a provider's reply is drawn from a small set when the call is made. *)
(***************************************************************************)
EXTENDS Integers, Sequences, FiniteSets, TLC

VARIABLES request, environ, pc,
          tmap_app_key, kakao_js_key, openweather_key,
          departure, destination, mode,
          response, dep_coord, dest_coord,
          w_res, r, tr, calls, returned

vars == <<request, environ, pc, tmap_app_key, kakao_js_key, openweather_key,
          departure, destination, mode, response, dep_coord, dest_coord,
          w_res, r, tr, calls, returned>>

(* ------------------------------ bounds -------------------------------- *)
MaxFeatures == 2
MaxLegs == 2

(* --------------------------- Python values ---------------------------- *)
None == <<"<None>">>
Nil == <<>>
Some(x) == <<x>>
EmptyStr == <<>>

\* truthiness of an optional str: None and "" are falsy
Truthy(s) == s # None /\ s # EmptyStr

\* Python's  a or b  on optional strs
Or(a, b) == IF Truthy(a) THEN a ELSE b

IsSpace(c) == c \in {" ", "\t"}

RECURSIVE lstrip(_)
lstrip(s) == IF s # <<>> /\ IsSpace(Head(s)) THEN lstrip(Tail(s)) ELSE s

RECURSIVE rstrip(_)
rstrip(s) ==
  IF s # <<>> /\ IsSpace(s[Len(s)]) THEN rstrip(SubSeq(s, 1, Len(s) - 1)) ELSE s

\* str.strip() with no argument: whitespace removed at both ends
strip_keep(s) == s

strip(s) == rstrip(lstrip(s))

\* a JSON scalar read from a provider payload with dict.get: the key is
\* absent, or it holds a number, or a non-numeric string (int() and float()
\* raise on it)
VNone == [t |-> "none", n |-> 0]
VNum(k) == [t |-> "num", n |-> k]
VBad == [t |-> "bad", n |-> 0]
VTruthy(v) == v.t = "bad" \/ (v.t = "num" /\ v.n # 0)
VOr(a, b) == IF VTruthy(a) THEN a ELSE b
\* dict.get(key, 0)
VGet0(v) == IF v.t = "none" THEN VNum(0) ELSE v

\* os.environ.get(name, default)
Unset == None
EnvGet(env, name, default) == IF env[name] = Unset THEN default ELSE env[name]

HTTP_200_OK == 200

(* ------------------------------ texts --------------------------------- *)
\* an error note of raw.errors; keyword is the f-string argument, if any
Note(text, keyword) == [text |-> text, keyword |-> keyword]
ErrEndpoints == Note("origin and destination are required", EmptyStr)
ErrNoKey == Note("TMAP_APP_KEY is not set in the server environment", EmptyStr)
ErrGeocode(keyword) == Note("'{}' geocoding failed", keyword)
ErrWeather == Note("weather lookup failed", EmptyStr)
ErrCar == Note("car route lookup failed", EmptyStr)
ErrTransit == Note("transit route lookup failed", EmptyStr)
ErrNoRoute == Note("no suitable route found", EmptyStr)

\* a line of steps, or the duration/distance text: template and arguments
Text(text, a, b, c, n) == [text |-> text, a |-> a, b |-> b, c |-> c, n |-> n]
Plain(text) == Text(text, EmptyStr, EmptyStr, "", 0)
GuidanceSteps ==
  << Plain("TMAP_APP_KEY is not set in the server environment"),
     Plain("set TMAP_APP_KEY in settings.py or .env"),
     Plain("the Tmap route is shown once the API key is set") >>
ApproxMin(n) == Text("about {} min", EmptyStr, EmptyStr, "", n)
Km(tenths) == Text("{} km", EmptyStr, EmptyStr, "", tenths)

(* ------------------------- provider replies --------------------------- *)
BoundedSeq(S, n) == UNION {[1..k -> S] : k \in 0..n}

\* reply of the POI search: exc = transport error, error status or invalid
\* JSON; spi = data has a truthy "searchPoiInfo"; pois = shape of
\* spi["pois"]["poi"]; the eight fields are those of the first POI
GeoReply(exc, spi, pois, frontLat, noorLat, lat, frontLon, noorLon, lon) ==
  [exc |-> exc, spi |-> spi, pois |-> pois,
   frontLat |-> frontLat, frontlat |-> VNone, noorLat |-> noorLat, lat |-> lat,
   frontLon |-> frontLon, frontlon |-> VNone, noorLon |-> noorLon, lon |-> lon]
GeoReplies ==
  { GeoReply(TRUE, FALSE, "none", VNone, VNone, VNone, VNone, VNone, VNone),
    GeoReply(FALSE, FALSE, "none", VNone, VNone, VNone, VNone, VNone, VNone),
    GeoReply(FALSE, TRUE, "none", VNone, VNone, VNone, VNone, VNone, VNone),
    GeoReply(FALSE, TRUE, "list", VNum(37), VNone, VNone, VNum(127), VNone, VNone),
    GeoReply(FALSE, TRUE, "dict", VNone, VNum(37), VNone, VNone, VNum(127), VNone),
    GeoReply(FALSE, TRUE, "dict", VNone, VNone, VNone, VNone, VNone, VNum(127)),
    GeoReply(FALSE, TRUE, "list", VNone, VNone, VBad, VNone, VNone, VNum(127)) }

\* reply of the weather provider: has_main = w_data["main"]["temp"] and
\* w_data["weather"][0]["description"] can be read
WeatherReplies ==
  { [exc |-> TRUE, has_main |-> FALSE, name |-> "", temp |-> 0, desc |-> ""],
    [exc |-> FALSE, has_main |-> FALSE, name |-> "Seoul", temp |-> 0, desc |-> ""],
    [exc |-> FALSE, has_main |-> TRUE, name |-> "Seoul", temp |-> 21, desc |-> "clear"] }

\* a feature of the driving reply: the two totals of its properties and its
\* geometry ("null" = the JSON value null, on which .get raises)
FeatureKinds ==
  { [totalTime |-> VNum(2400), totalDistance |-> VNum(23456),
     geometry |-> "Point", coordinates |-> <<>>],
    [totalTime |-> VNone, totalDistance |-> VNone, geometry |-> "LineString",
     coordinates |-> << [lng |-> 127, lat |-> 37], [lng |-> 128, lat |-> 38] >>],
    [totalTime |-> VBad, totalDistance |-> VNum(8000),
     geometry |-> "null", coordinates |-> <<>>] }
CarReplies ==
  { [exc |-> TRUE, features |-> <<>>] }
    \cup { [exc |-> FALSE, features |-> f] : f \in BoundedSeq(FeatureKinds, MaxFeatures) }

\* a leg of the first itinerary of the transit reply
LegKinds ==
  { [mode |-> "SUBWAY", sectionTime |-> VNum(300), start |-> <<"A">>, end |-> <<"B">>],
    [mode |-> "TAXI", sectionTime |-> VNone, start |-> None, end |-> None],
    [mode |-> "BUS", sectionTime |-> VBad, start |-> <<"B">>, end |-> None] }
Itinerary(totalTime, legs) ==
  [totalTime |-> totalTime, totalDistance |-> VNum(12340), transferCount |-> 1,
   pathType |-> "1", legs |-> legs]
TransitReplies ==
  { [exc |-> TRUE, itineraries |-> <<>>],
    [exc |-> FALSE, itineraries |-> <<>>],
    [exc |-> FALSE, itineraries |-> << Itinerary(VBad, <<>>) >>] }
    \cup { [exc |-> FALSE, itineraries |-> << Itinerary(VNum(1800), l) >>] :
             l \in BoundedSeq(LegKinds, MaxLegs) }

(* --------------------------- tmap_geocode ----------------------------- *)
\* the try body of tmap_geocode: exc = an exception was raised in it
GeocodeTry(reply) ==
  LET lat == VOr(reply.frontLat, VOr(reply.frontlat, VOr(reply.noorLat, reply.lat)))
      lon == VOr(reply.frontLon, VOr(reply.frontlon, VOr(reply.noorLon, reply.lon)))
  IN  IF reply.exc THEN [exc |-> TRUE, coord |-> Nil]
      ELSE IF ~reply.spi THEN [exc |-> FALSE, coord |-> Nil]
      ELSE IF reply.pois = "none" THEN [exc |-> FALSE, coord |-> Nil]
      ELSE IF lat.t = "none" \/ lon.t = "none" THEN [exc |-> FALSE, coord |-> Nil]
      ELSE IF lat.t = "bad" \/ lon.t = "bad" THEN [exc |-> TRUE, coord |-> Nil]
      ELSE [exc |-> FALSE, coord |-> Some([lat |-> lat.n, lon |-> lon.n])]

\* the same helper without its except clause: the exception propagates
tmap_geocode_uncaught(keyword, app_key, reply) ==
  IF ~Truthy(keyword) \/ ~Truthy(app_key)
  THEN [raised |-> FALSE, called |-> FALSE, coord |-> Nil]
  ELSE [raised |-> GeocodeTry(reply).exc, called |-> TRUE,
        coord |-> GeocodeTry(reply).coord]

\* tmap_geocode(keyword, app_key): called = the provider was queried;
\* raised = an exception left the function (never, every one is caught)
tmap_geocode(keyword, app_key, reply) ==
  IF ~Truthy(keyword) \/ ~Truthy(app_key)
  THEN [raised |-> FALSE, called |-> FALSE, coord |-> Nil]
  ELSE [raised |-> FALSE, called |-> TRUE,
        coord |-> IF GeocodeTry(reply).exc THEN Nil ELSE GeocodeTry(reply).coord]

(* ------------------------------ weather ------------------------------- *)
\* the try body of the weather stage
WeatherTry(reply) ==
  IF reply.exc \/ ~reply.has_main
  THEN [exc |-> TRUE, weather |-> Nil]
  ELSE [exc |-> FALSE,
        weather |-> Some([name |-> reply.name, temp |-> reply.temp,
                          desc |-> reply.desc])]

(* ---------------------------- driving route --------------------------- *)
\* round(metres / 1000, 1), in tenths of a kilometre
Round1(metres) == (metres + 50) \div 100

\* the loop over features that fills car_path; stops at the first exception
RECURSIVE CarPathLoop(_, _)
CarPathLoop(features, acc) ==
  IF features = <<>> THEN [exc |-> FALSE, car_path |-> acc]
  ELSE LET f == Head(features)
       IN  IF f.geometry = "null" THEN [exc |-> TRUE, car_path |-> acc]
           ELSE IF f.geometry = "LineString"
           THEN CarPathLoop(Tail(features),
                  acc \o [i \in 1..Len(f.coordinates) |->
                            [lat |-> f.coordinates[i].lat, lng |-> f.coordinates[i].lng]])
           ELSE CarPathLoop(Tail(features), acc)

\* the try body of the driving stage: the values of car_info and car_path
\* when it ends, normally or by an exception
CarTry(reply) ==
  IF reply.exc THEN [exc |-> TRUE, car_info |-> Nil, car_path |-> <<>>]
  ELSE LET features == reply.features
           total_time == VGet0(features[1].totalTime)
           total_distance == VGet0(features[1].totalDistance)
           car_info ==
             IF features = <<>> THEN Nil
             ELSE Some([time_min |-> total_time.n \div 60,
                        distance_km |-> Round1(total_distance.n)])
           loop == CarPathLoop(features, <<>>)
       IN  IF features # <<>> /\ (total_time.t = "bad" \/ total_distance.t = "bad")
           THEN [exc |-> TRUE, car_info |-> Nil, car_path |-> <<>>]
           ELSE [exc |-> loop.exc, car_info |-> car_info, car_path |-> loop.car_path]

(* ---------------------------- transit route --------------------------- *)
mode_ko_map(mode_leg) ==
  CASE mode_leg = "WALK" -> "dobo"
    [] mode_leg = "BUS" -> "beoseu"
    [] mode_leg = "SUBWAY" -> "jihacheol"
    [] mode_leg = "EXPRESSBUS" -> "gosokbeoseu"
    [] mode_leg = "TRAIN" -> "gicha"
    [] mode_leg = "FERRY" -> "haeun"
    [] OTHER -> mode_leg

LegSummary(start_name, end_name, mode_ko, time_min) ==
  Text("{} -> {} ({}) about {} min", start_name, end_name, mode_ko, time_min)

\* the loop over legs that fills transit_steps; stops at the first exception
RECURSIVE TransitLegLoop(_, _, _)
TransitLegLoop(legs, idx, acc) ==
  IF legs = <<>> THEN [exc |-> FALSE, transit_steps |-> acc]
  ELSE LET leg == Head(legs)
           sec == VGet0(leg.sectionTime)
       IN  IF sec.t = "bad" THEN [exc |-> TRUE, transit_steps |-> acc]
           ELSE TransitLegLoop(Tail(legs), idx + 1,
                  Append(acc,
                    [order |-> idx, mode |-> leg.mode, mode_ko |-> mode_ko_map(leg.mode),
                     summary |-> LegSummary(Or(leg.start, EmptyStr), Or(leg.end, EmptyStr),
                                            mode_ko_map(leg.mode), sec.n \div 60)]))

\* the try body of the transit stage: the values of transit_info and
\* transit_steps when it ends, normally or by an exception
TransitTry(reply) ==
  IF reply.exc THEN [exc |-> TRUE, transit_info |-> Nil, transit_steps |-> <<>>]
  ELSE IF reply.itineraries = <<>>
  THEN [exc |-> FALSE, transit_info |-> Nil, transit_steps |-> <<>>]
  ELSE LET it0 == reply.itineraries[1]
           total_time == VGet0(it0.totalTime)
           total_distance == VGet0(it0.totalDistance)
           loop == TransitLegLoop(it0.legs, 1, <<>>)
       IN  IF total_time.t = "bad" \/ total_distance.t = "bad"
           THEN [exc |-> TRUE, transit_info |-> Nil, transit_steps |-> <<>>]
           ELSE [exc |-> loop.exc,
                 transit_info |-> Some([total_time_min |-> total_time.n \div 60,
                                        total_distance_km |-> Round1(total_distance.n),
                                        transfer_count |-> it0.transferCount,
                                        path_type |-> it0.pathType]),
                 transit_steps |-> loop.transit_steps]

(* ------------------------------ inputs -------------------------------- *)
CarStr == <<"c", "a", "r">>
TransitStr == <<"t", "r", "a", "n", "s", "i", "t">>
WalkStr == <<"w", "a", "l", "k">>

\* query strings: each parameter is absent (None) or a str
Requests ==
  [origin : {None, EmptyStr, <<" ">>, <<" ", "A">>},
   departure : {None, <<" ">>, <<"B">>},
   destination : {None, <<"\t", " ">>, <<"B", " ">>},
   mode : {None, EmptyStr, <<" ">>, CarStr, <<" ">> \o TransitStr, WalkStr,
           <<"b", "i", "k", "e">>}]

\* process environments: each variable is unset or a str
Environs ==
  [TMAP_APP_KEY : {Unset, EmptyStr, <<"k">>},
   KAKAO_JS_KEY : {<<"j">>},
   OPENWEATHER_API_KEY : {Unset, <<"w">>}]

(* ------------------------------ get ----------------------------------- *)
\* the debug bundle as built at the top of get
NewResponse(kakao, dep, dest, m) ==
  [kakao_js_key |-> kakao, departure |-> dep, destination |-> dest, mode |-> m,
   weather |-> Nil, car_info |-> Nil, transit_info |-> Nil, car_path |-> <<>>,
   transit_steps |-> <<>>, errors |-> <<>>]

\* Response({duration, distance, steps, raw}, status=HTTP_200_OK)
Response(duration, distance, steps, raw) ==
  [status |-> HTTP_200_OK,
   data |-> [duration |-> duration, distance |-> distance, steps |-> steps,
             raw |-> raw]]

\* departure = (GET.get("origin") or GET.get("departure") or "").strip()
ParseDeparture(req) == strip(Or(Or(req.origin, req.departure), EmptyStr))

\* destination = (GET.get("destination") or "").strip()
ParseDestination(req) == strip(Or(req.destination, EmptyStr))

\* the mode read without its default
ParseMode_nodefault(req) == strip(Or(req.mode, EmptyStr))

\* mode = (GET.get("mode") or "car").strip()
ParseMode(req) == strip(Or(req.mode, CarStr))

Init ==
  /\ request \in Requests
  /\ environ \in Environs
  /\ pc = "read"
  /\ tmap_app_key = EmptyStr
  /\ kakao_js_key = EmptyStr
  /\ openweather_key = EmptyStr
  /\ departure = EmptyStr
  /\ destination = EmptyStr
  /\ mode = EmptyStr
  /\ response = NewResponse(EmptyStr, EmptyStr, EmptyStr, EmptyStr)
  /\ dep_coord = Nil
  /\ dest_coord = Nil
  /\ w_res = Nil
  /\ r = Nil
  /\ tr = Nil
  /\ calls = <<>>
  /\ returned = <<>>

\* return Response(...): the handler ends
Return(resp) ==
  /\ returned' = Append(returned, resp)
  /\ pc' = "done"

\* the keys, the three parameters and the empty debug bundle
ReadRequest ==
  /\ pc = "read"
  /\ tmap_app_key' = EnvGet(environ, "TMAP_APP_KEY", EmptyStr)
  /\ kakao_js_key' = EnvGet(environ, "KAKAO_JS_KEY", EmptyStr)
  /\ openweather_key' = EnvGet(environ, "OPENWEATHER_API_KEY", EmptyStr)
  /\ departure' = ParseDeparture(request)
  /\ destination' = ParseDestination(request)
  /\ mode' = ParseMode(request)
  /\ response' = NewResponse(kakao_js_key', departure', destination', mode')
  /\ pc' = "validate"
  /\ UNCHANGED <<request, environ, dep_coord, dest_coord, w_res, r, tr, calls,
                 returned>>

\* if not (departure and destination): empty route
Validate ==
  /\ pc = "validate"
  /\ IF ~(Truthy(departure) /\ Truthy(destination))
     THEN /\ response' = [response EXCEPT !.errors = Append(@, ErrEndpoints)]
          /\ Return(Response(Nil, Nil, <<>>, response'))
     ELSE /\ pc' = "check_key"
          /\ UNCHANGED <<response, returned>>
  /\ UNCHANGED <<request, environ, tmap_app_key, kakao_js_key, openweather_key,
                 departure, destination, mode, dep_coord, dest_coord, w_res, r,
                 tr, calls>>

\* the key check left out: the flow goes on to geocoding
CheckKey_skipped ==
  /\ pc = "check_key"
  /\ pc' = "geocode_dep"
  /\ UNCHANGED <<request, environ, tmap_app_key, kakao_js_key, openweather_key,
                 departure, destination, mode, response, dep_coord, dest_coord,
                 w_res, r, tr, calls, returned>>

\* if not tmap_app_key: guidance
CheckKey ==
  /\ pc = "check_key"
  /\ IF ~Truthy(tmap_app_key)
     THEN /\ response' = [response EXCEPT !.errors = Append(@, ErrNoKey)]
          /\ Return(Response(Nil, Nil, GuidanceSteps, response'))
     ELSE /\ pc' = "geocode_dep"
          /\ UNCHANGED <<response, returned>>
  /\ UNCHANGED <<request, environ, tmap_app_key, kakao_js_key, openweather_key,
                 departure, destination, mode, dep_coord, dest_coord, w_res, r,
                 tr, calls>>

\* dep_coord = tmap_geocode(departure, tmap_app_key)
GeocodeDeparture ==
  /\ pc = "geocode_dep"
  /\ \E reply \in GeoReplies :
       LET g == tmap_geocode(departure, tmap_app_key, reply)
       IN  /\ calls' = IF g.called THEN Append(calls, "geocode") ELSE calls
           /\ IF g.raised
              THEN pc' = "raised" /\ UNCHANGED dep_coord
              ELSE pc' = "geocode_dest" /\ dep_coord' = g.coord
  /\ UNCHANGED <<request, environ, tmap_app_key, kakao_js_key, openweather_key,
                 departure, destination, mode, response, dest_coord, w_res, r,
                 tr, returned>>

\* dest_coord = tmap_geocode(destination, tmap_app_key)
GeocodeDestination ==
  /\ pc = "geocode_dest"
  /\ \E reply \in GeoReplies :
       LET g == tmap_geocode(destination, tmap_app_key, reply)
       IN  /\ calls' = IF g.called THEN Append(calls, "geocode") ELSE calls
           /\ IF g.raised
              THEN pc' = "raised" /\ UNCHANGED dest_coord
              ELSE pc' = "geocode_check" /\ dest_coord' = g.coord
  /\ UNCHANGED <<request, environ, tmap_app_key, kakao_js_key, openweather_key,
                 departure, destination, mode, response, dep_coord, w_res, r,
                 tr, returned>>

\* the failure notes of the two lookups, in the order they are appended
GeocodeNotes(dep, dest) ==
  (IF dep = Nil THEN <<ErrGeocode(departure)>> ELSE <<>>)
    \o (IF dest = Nil THEN <<ErrGeocode(destination)>> ELSE <<>>)

\* the test with "and" in place of "or"
GeocodeFailed_both(dep, dest) == dep = Nil /\ dest = Nil

\* if dep_lat is None or dest_lat is None
GeocodeFailed(dep, dest) == dep = Nil \/ dest = Nil

\* the notes of the failed lookups, then the empty route if either failed
GeocodeCheck ==
  /\ pc = "geocode_check"
  /\ response' = [response EXCEPT !.errors = @ \o GeocodeNotes(dep_coord, dest_coord)]
  /\ IF GeocodeFailed(dep_coord, dest_coord)
     THEN Return(Response(Nil, Nil, <<>>, response'))
     ELSE pc' = "weather" /\ UNCHANGED returned
  /\ UNCHANGED <<request, environ, tmap_app_key, kakao_js_key, openweather_key,
                 departure, destination, mode, dep_coord, dest_coord, w_res, r,
                 tr, calls>>

\* the weather stage with a failure ending the request
Weather_fatal ==
  /\ pc = "weather"
  /\ \/ /\ Truthy(openweather_key)
        /\ \E reply \in WeatherReplies :
             /\ w_res' = Some(reply)
             /\ IF WeatherTry(reply).exc
                THEN /\ response' = [response EXCEPT !.errors = Append(@, ErrWeather)]
                     /\ Return(Response(Nil, Nil, <<>>, response'))
                ELSE /\ response' = [response EXCEPT !.weather = WeatherTry(reply).weather]
                     /\ pc' = "car"
                     /\ UNCHANGED returned
        /\ calls' = Append(calls, "weather")
     \/ /\ ~Truthy(openweather_key)
        /\ pc' = "car"
        /\ UNCHANGED <<response, w_res, calls, returned>>
  /\ UNCHANGED <<request, environ, tmap_app_key, kakao_js_key, openweather_key,
                 departure, destination, mode, dep_coord, dest_coord, r, tr>>

\* weather = None; one call if openweather_key, a failure only noted
Weather ==
  /\ pc = "weather"
  /\ \/ /\ Truthy(openweather_key)
        /\ \E reply \in WeatherReplies :
             /\ w_res' = Some(reply)
             /\ response' =
                  [response EXCEPT
                     !.errors = IF WeatherTry(reply).exc THEN Append(@, ErrWeather) ELSE @,
                     !.weather = WeatherTry(reply).weather]
        /\ calls' = Append(calls, "weather")
     \/ /\ ~Truthy(openweather_key)
        /\ UNCHANGED <<response, w_res, calls>>
  /\ pc' = "car"
  /\ UNCHANGED <<request, environ, tmap_app_key, kakao_js_key, openweather_key,
                 departure, destination, mode, dep_coord, dest_coord, r, tr,
                 returned>>

\* the driving stage with a second attempt after a failed one
CarRoute_retry ==
  /\ pc = "car"
  /\ \E first \in CarReplies, second \in CarReplies :
       LET reply == IF CarTry(first).exc THEN second ELSE first
       IN  /\ r' = Some(reply)
           /\ calls' = IF CarTry(first).exc THEN calls \o <<"car", "car">>
                       ELSE Append(calls, "car")
           /\ response' =
                [response EXCEPT
                   !.errors = IF CarTry(reply).exc THEN Append(@, ErrCar) ELSE @,
                   !.car_info = CarTry(reply).car_info,
                   !.car_path = CarTry(reply).car_path]
  /\ pc' = "transit"
  /\ UNCHANGED <<request, environ, tmap_app_key, kakao_js_key, openweather_key,
                 departure, destination, mode, dep_coord, dest_coord, w_res, tr,
                 returned>>

\* car_info, car_path: one POST to the driving provider, a failure noted
CarRoute ==
  /\ pc = "car"
  /\ \E reply \in CarReplies :
       /\ r' = Some(reply)
       /\ response' =
            [response EXCEPT
               !.errors = IF CarTry(reply).exc THEN Append(@, ErrCar) ELSE @,
               !.car_info = CarTry(reply).car_info,
               !.car_path = CarTry(reply).car_path]
  /\ calls' = Append(calls, "car")
  /\ pc' = "transit"
  /\ UNCHANGED <<request, environ, tmap_app_key, kakao_js_key, openweather_key,
                 departure, destination, mode, dep_coord, dest_coord, w_res, tr,
                 returned>>

\* transit_info, transit_steps: one POST to the transit provider, a failure
\* noted
TransitRoute ==
  /\ pc = "transit"
  /\ \E reply \in TransitReplies :
       /\ tr' = Some(reply)
       /\ response' =
            [response EXCEPT
               !.errors = IF TransitTry(reply).exc THEN Append(@, ErrTransit) ELSE @,
               !.transit_info = TransitTry(reply).transit_info,
               !.transit_steps = TransitTry(reply).transit_steps]
  /\ calls' = Append(calls, "transit")
  /\ pc' = "shape"
  /\ UNCHANGED <<request, environ, tmap_app_key, kakao_js_key, openweather_key,
                 departure, destination, mode, dep_coord, dest_coord, w_res, r,
                 returned>>

(* ------------------------------ shaping ------------------------------- *)
WalkSpeedKmh == 4

CarSteps(dep, dest, km) ==
  << Text("depart from {}", dep, EmptyStr, "", 0),
     Text("follow the Tmap car route (about {}km)", EmptyStr, EmptyStr, "", km),
     Text("arrive at {}", dest, EmptyStr, "", 0) >>

WalkSteps(dep, dest, km) ==
  << Text("depart on foot from {}", dep, EmptyStr, "", 0),
     Text("walk about {}km", EmptyStr, EmptyStr, "", km),
     Text("arrive at {}", dest, EmptyStr, "", 0) >>

NoResult == [duration |-> Nil, distance |-> Nil, steps |-> <<>>]

\* int(distance_km / 4 * 60), distance_km in tenths and not negative
WalkMinutes(tenths) == (tenths * 60) \div (WalkSpeedKmh * 10)

\* the chain with a final else that shapes any other mode as car
ShapeResult_else_car(m, dep, dest, car_info, transit_info, transit_steps) ==
  IF m = TransitStr /\ transit_info # Nil
  THEN [duration |-> Some(ApproxMin(transit_info[1].total_time_min)),
        distance |-> Some(Km(transit_info[1].total_distance_km)),
        steps |-> [i \in 1..Len(transit_steps) |-> transit_steps[i].summary]]
  ELSE IF m = WalkStr /\ car_info # Nil
  THEN [duration |-> Some(ApproxMin(WalkMinutes(car_info[1].distance_km))),
        distance |-> Some(Km(car_info[1].distance_km)),
        steps |-> WalkSteps(dep, dest, car_info[1].distance_km)]
  ELSE IF m \notin {TransitStr, WalkStr} /\ car_info # Nil
  THEN [duration |-> Some(ApproxMin(car_info[1].time_min)),
        distance |-> Some(Km(car_info[1].distance_km)),
        steps |-> CarSteps(dep, dest, car_info[1].distance_km)]
  ELSE NoResult

\* duration, distance, steps of the if / elif / elif chain on mode
ShapeResult(m, dep, dest, car_info, transit_info, transit_steps) ==
  IF m = CarStr /\ car_info # Nil
  THEN [duration |-> Some(ApproxMin(car_info[1].time_min)),
        distance |-> Some(Km(car_info[1].distance_km)),
        steps |-> CarSteps(dep, dest, car_info[1].distance_km)]
  ELSE IF m = TransitStr /\ transit_info # Nil
  THEN [duration |-> Some(ApproxMin(transit_info[1].total_time_min)),
        distance |-> Some(Km(transit_info[1].total_distance_km)),
        steps |-> [i \in 1..Len(transit_steps) |-> transit_steps[i].summary]]
  ELSE IF m = WalkStr /\ car_info # Nil
  THEN [duration |-> Some(ApproxMin(WalkMinutes(car_info[1].distance_km))),
        distance |-> Some(Km(car_info[1].distance_km)),
        steps |-> WalkSteps(dep, dest, car_info[1].distance_km)]
  ELSE NoResult

\* the shaped fields; without a duration the "no suitable route" note and
\* the empty route
Shape ==
  /\ pc = "shape"
  /\ LET s == ShapeResult(mode, departure, destination, response.car_info,
                          response.transit_info, response.transit_steps)
     IN  IF s.duration = Nil
         THEN /\ response' = [response EXCEPT !.errors = Append(@, ErrNoRoute)]
              /\ Return(Response(Nil, Nil, <<>>, response'))
         ELSE /\ UNCHANGED response
              /\ Return(Response(s.duration, s.distance, s.steps, response))
  /\ UNCHANGED <<request, environ, tmap_app_key, kakao_js_key, openweather_key,
                 departure, destination, mode, dep_coord, dest_coord, w_res, r,
                 tr, calls>>

Next ==
  \/ ReadRequest
  \/ Validate
  \/ CheckKey
  \/ GeocodeDeparture
  \/ GeocodeDestination
  \/ GeocodeCheck
  \/ Weather
  \/ CarRoute
  \/ TransitRoute
  \/ Shape

Spec == Init /\ [][Next]_vars

(* ------------------------- checked properties ------------------------- *)
Done == pc = "done"
Body == returned[1].data
Errors == Body.raw.errors
Has(seq, x) == \E i \in DOMAIN seq : seq[i] = x
Count(seq, x) == Cardinality({i \in DOMAIN seq : seq[i] = x})
EmptyRoute == Body.duration = Nil /\ Body.distance = Nil /\ Body.steps = <<>>

\* a parameter that is absent, empty or made of whitespace only
IsBlank(s) == s = None \/ \A i \in DOMAIN s : IsSpace(s[i])
\* the origin as given: the alias departure stands in for an absent or empty origin
GivenOrigin == IF request.origin \in {None, EmptyStr} THEN request.departure ELSE request.origin
BlankEndpoint == IsBlank(GivenOrigin) \/ IsBlank(request.destination)
KeyUnset == environ.TMAP_APP_KEY = Unset
\* validation and the credential check passed
PassedChecks == Truthy(departure) /\ Truthy(destination) /\ Truthy(tmap_app_key)
GeocodingFailed == PassedChecks /\ (dep_coord = Nil \/ dest_coord = Nil)
GeocodingPassed == dep_coord # Nil /\ dest_coord # Nil
AllStagesRan == Done /\ tr # Nil
IsRouting(c) == c \in {"car", "transit"}

\* C1: a request whose origin (or, for an absent or empty origin, its alias
\* departure) or destination is empty or whitespace-only ends with
\* duration = null, distance = null, steps = [] and the endpoints note in
\* raw.errors, for every mode and every configuration of the keys.
C1_BlankEndpointEmptyRoute ==
  (Done /\ BlankEndpoint) =>
     /\ EmptyRoute
     /\ Has(Errors, ErrEndpoints)
     /\ calls = <<>>

C1_Witness ==
  /\ Done
  /\ request.origin = <<" ">>
  /\ request.departure = <<"B">>
  /\ ~IsBlank(request.destination)
  /\ Truthy(tmap_app_key)
  /\ request.mode = WalkStr
  /\ EmptyRoute
  /\ Errors = <<ErrEndpoints>>

\* C2 as stated: every request made while TMAP_APP_KEY is unset ends with
\* duration = null and the guidance text in steps.
C2_Original ==
  (Done /\ KeyUnset) => (Body.duration = Nil /\ Body.steps = GuidanceSteps)

\* C2 as amended: every request with a non-blank origin and destination made
\* while TMAP_APP_KEY is unset ends with duration = null and the guidance
\* text in steps.
C2_KeyUnsetGuidance ==
  (Done /\ KeyUnset /\ ~BlankEndpoint) =>
     (Body.duration = Nil /\ Body.steps = GuidanceSteps)

C2_Witness ==
  /\ Done
  /\ KeyUnset
  /\ ~BlankEndpoint
  /\ Body.steps = GuidanceSteps
  /\ Errors = <<ErrNoKey>>

\* C3: no exception leaves the handler, every request that has not ended can
\* take its next step, and a request that ended returned exactly one
\* response, with success status and the keys duration, distance, steps, raw.
C3_AlwaysOneSuccessResponse ==
  /\ pc # "raised"
  /\ Done \/ ENABLED Next
  /\ Len(returned) = (IF Done THEN 1 ELSE 0)
  /\ Done => /\ returned[1].status = HTTP_200_OK
             /\ DOMAIN Body = {"duration", "distance", "steps", "raw"}

C3_Witness ==
  /\ Done
  /\ w_res # Nil /\ w_res[1].exc
  /\ r # Nil /\ r[1].exc
  /\ tr # Nil /\ tr[1].exc
  /\ returned[1].status = HTTP_200_OK
  /\ Errors = <<ErrWeather, ErrCar, ErrTransit, ErrNoRoute>>

\* C4 as stated: when a lookup fails the request ends with the empty route,
\* no weather, driving or transit call, and both geocoding notes in
\* raw.errors.
C4_Original ==
  (Done /\ GeocodingFailed) =>
     /\ EmptyRoute
     /\ calls = <<"geocode", "geocode">>
     /\ Has(Errors, ErrGeocode(departure))
     /\ Has(Errors, ErrGeocode(destination))

\* C4 as amended: when a lookup fails the request ends with the empty route
\* and no weather, driving or transit call; both lookups were made, and
\* raw.errors holds exactly one geocoding note for each lookup that failed.
C4_GeocodingFailureEmptyRoute ==
  (Done /\ GeocodingFailed) =>
     /\ EmptyRoute
     /\ calls = <<"geocode", "geocode">>
     /\ Errors = (IF dep_coord = Nil THEN <<ErrGeocode(departure)>> ELSE <<>>)
                   \o (IF dest_coord = Nil THEN <<ErrGeocode(destination)>> ELSE <<>>)

C4_Witness ==
  /\ Done
  /\ GeocodingFailed
  /\ dep_coord = Nil
  /\ dest_coord # Nil
  /\ departure # destination
  /\ Errors = <<ErrGeocode(departure)>>

\* C5 as stated: in the driving stage a transport or status error, a missing
\* or empty feature list, or an exception while reading the features or the
\* geometry leaves car_info null and appends the driving note.
C5_Claim ==
  (Done /\ r # Nil /\ (r[1].exc \/ r[1].features = <<>> \/ CarTry(r[1]).exc)) =>
     (Body.raw.car_info = Nil /\ Has(Errors, ErrCar))

\* C6 as stated: an exception in the transit stage leaves transit_info null
\* and transit_steps empty and appends the transit note, so the transit note
\* never comes with a transit_info or with transit_steps.
C6_Claim ==
  (Done /\ tr # Nil) =>
     /\ TransitTry(tr[1]).exc =>
          /\ Body.raw.transit_info = Nil
          /\ Body.raw.transit_steps = <<>>
          /\ Has(Errors, ErrTransit)
     /\ ~(Has(Errors, ErrTransit)
            /\ (Body.raw.transit_info # Nil \/ Body.raw.transit_steps # <<>>))

\* the selected mode has the upstream data it requires
ModeServed ==
  \/ mode = CarStr /\ Body.raw.car_info # Nil
  \/ mode = TransitStr /\ Body.raw.transit_info # Nil
  \/ mode = WalkStr /\ Body.raw.car_info # Nil

\* C7: after all stages ran, duration is non-null only for car with a drive
\* route, transit with an itinerary or walk with a drive route; otherwise
\* the route is empty and the "no suitable route" note is the last error.
C7_ShapingByMode ==
  AllStagesRan =>
     /\ Body.duration # Nil => ModeServed
     /\ ~ModeServed =>
          /\ EmptyRoute
          /\ Errors # <<>> /\ Errors[Len(Errors)] = ErrNoRoute
     /\ ModeServed => (Body.duration # Nil /\ ~Has(Errors, ErrNoRoute))

C7_Witness ==
  /\ AllStagesRan
  /\ mode = <<"b", "i", "k", "e">>
  /\ Body.raw.car_info # Nil
  /\ Body.raw.transit_info # Nil
  /\ EmptyRoute
  /\ Errors = <<ErrNoRoute>>

\* the shaped fields this request gets with mode = car
ShapedAsCar ==
  /\ Body.raw.mode = CarStr
  /\ AllStagesRan =>
       [duration |-> Body.duration, distance |-> Body.distance, steps |-> Body.steps]
         = ShapeResult(CarStr, departure, destination, Body.raw.car_info,
                       Body.raw.transit_info, Body.raw.transit_steps)
ModeRecognized ==
  request.mode # None /\ strip(request.mode) \in {CarStr, TransitStr, WalkStr}

\* C8 as stated: a request whose mode is missing, empty, whitespace-only or
\* unknown is shaped exactly as the same request with mode = car.
C8_Original == (Done /\ ~ModeRecognized) => ShapedAsCar

\* C8 as amended: a request whose mode is missing or empty is shaped exactly
\* as the same request with mode = car; a whitespace-only or unknown mode is
\* kept as given (trimmed) and, once all stages ran, ends in the empty route
\* with the "no suitable route" note.
C8_ModeDefault ==
  Done =>
     /\ request.mode \in {None, EmptyStr} => ShapedAsCar
     /\ (~ModeRecognized /\ request.mode \notin {None, EmptyStr}) =>
          /\ Body.raw.mode = strip(request.mode)
          /\ AllStagesRan => (EmptyRoute /\ Has(Errors, ErrNoRoute))

C8_Witness ==
  /\ AllStagesRan
  /\ request.mode = None
  /\ Body.duration = Some(ApproxMin(40))
  /\ Body.distance = Some(Km(235))
  /\ Body.steps = CarSteps(departure, destination, 235)

\* C9: the shaped fields are a function of the parameters and of the driving
\* and transit replies alone, and the weather stage never ends the request:
\* once geocoding passed, both routing replies are received whatever the
\* weather call did.
C9_WeatherNoInfluence ==
  Done =>
     /\ GeocodingPassed => (r # Nil /\ tr # Nil)
     /\ AllStagesRan =>
          [duration |-> Body.duration, distance |-> Body.distance, steps |-> Body.steps]
            = ShapeResult(mode, departure, destination, CarTry(r[1]).car_info,
                          TransitTry(tr[1]).transit_info,
                          TransitTry(tr[1]).transit_steps)

C9_Witness ==
  /\ AllStagesRan
  /\ w_res # Nil /\ WeatherTry(w_res[1]).exc
  /\ Has(Errors, ErrWeather)
  /\ mode = CarStr
  /\ Body.duration = Some(ApproxMin(40))

\* C10: no upstream call is repeated, and a request that passed validation,
\* the credential check and geocoding made the driving call and then the
\* transit call, once each, after the two lookups, whatever the mode and the
\* outcome of the weather call or of the other routing call.
C10_EachCallOnce ==
  /\ Count(calls, "geocode") <= 2
  /\ Count(calls, "weather") <= 1
  /\ Count(calls, "car") <= 1
  /\ Count(calls, "transit") <= 1
  /\ (Done /\ GeocodingPassed) =>
        /\ SelectSeq(calls, IsRouting) = <<"car", "transit">>
        /\ SubSeq(calls, 1, 2) = <<"geocode", "geocode">>

C10_Witness ==
  /\ Done
  /\ GeocodingPassed
  /\ mode = CarStr
  /\ CarTry(r[1]).exc
  /\ w_res # Nil /\ WeatherTry(w_res[1]).exc
  /\ calls = <<"geocode", "geocode", "weather", "car", "transit">>

====
